---- MODULE Spec2Model ----
(***************************************************************************)
(* Model of the movie-agent capstone: the TMDB helper module (tools.py:    *)
(* API key, safe fetch, provider and genre caches, discovery with paging,  *)
(* title search), the Streamlit session of app.py (history, selected item, *)
(* watchlist) and the fallback ladder of the filter-to-request mapper.     *)
(*                                                                         *)
(* Conventions.  A Python Optional is a sequence of length 0 (None) or 1.  *)
(* A str that the code inspects (strip, lower, substring) is a sequence of *)
(* one-character strings.  A dict that keeps insertion order is a sequence *)
(* of <<key, value>> pairs.  A JSON object is a record that carries the    *)
(* set of keys it really has.  A function of tools.py that may call the    *)
(* network is an operator that returns the SET of its possible results,    *)
(* one per outcome of each HTTP call it makes.                             *)
(***************************************************************************)
EXTENDS Integers, Sequences, FiniteSets, TLC

VARIABLES
    TMDB_API_KEY,     \* tools.TMDB_API_KEY: Optional[str]
    initCalled,       \* whether tools.init has run (it is called once)
    _provider_cache,  \* tools._provider_cache
    _genre_cache,     \* tools._genre_cache
    now,              \* time.time(), seconds
    ticks,            \* number of clock advances so far (bounded)
    fetchedAt,        \* history: when each stored mapping was fetched
    last,             \* history: the last tools call, its requests and result
    ui,               \* st.session_state of app.py
    ladder            \* one run of the mapper's fallback ladder

vars == <<TMDB_API_KEY, initCalled, _provider_cache, _genre_cache, now, ticks,
          fetchedAt, last, ui, ladder>>

toolsVars == <<TMDB_API_KEY, initCalled, _provider_cache, _genre_cache, now,
               ticks, fetchedAt, last>>

----------------------------------------------------------------------------
(* Bounds of the model *)

MaxTicks == 3
MaxNames == 2
MaxGenres == 1
MaxPages == 2
MaxWatch == 3
MaxHistory == 2
MaxIds == 2

----------------------------------------------------------------------------
(* Python values *)

None == <<>>
Some(x) == <<x>>

MediaTypes == {"movie", "tv"}

\* truthiness of an Optional[str] / Optional[sequence] / Optional[int]
TruthyStr(o) == o # None /\ o[1] # ""
TruthySeq(o) == o # None /\ o[1] # <<>>
TruthyInt(o) == o # None /\ o[1] # 0

\* a or b, on Optional[str]
OrStr(a, b) == IF TruthyStr(a) THEN a ELSE b

LowerChar(c) ==
    CASE c = "N" -> "n"
      [] c = "A" -> "a"
      [] OTHER -> c

\* str.lower()
Lower(s) == [i \in 1..Len(s) |-> LowerChar(s[i])]

RECURSIVE LStrip(_)
LStrip(s) == IF s # <<>> /\ Head(s) = " " THEN LStrip(Tail(s)) ELSE s

RECURSIVE RStrip(_)
RStrip(s) ==
    IF s # <<>> /\ s[Len(s)] = " " THEN RStrip(SubSeq(s, 1, Len(s) - 1)) ELSE s

\* str.strip()
Strip(s) == RStrip(LStrip(s))

\* a in b, on str
IsSubstring(a, b) ==
    \E i \in 1..(Len(b) - Len(a) + 1) : SubSeq(b, i, i + Len(a) - 1) = a

\* sep.join(strs)
RECURSIVE Join(_, _)
Join(sep, strs) ==
    IF strs = <<>> THEN ""
    ELSE IF Len(strs) = 1 THEN strs[1]
    ELSE strs[1] \o sep \o Join(sep, Tail(strs))

\* dict: k in d, d[k], d[k] = v (a new key goes last, an old key keeps its place)
DictHas(d, k) == \E i \in 1..Len(d) : d[i][1] = k
DictGet(d, k) == d[CHOOSE i \in 1..Len(d) : d[i][1] = k][2]
DictSet(d, k, v) ==
    IF DictHas(d, k)
    THEN [i \in 1..Len(d) |-> IF d[i][1] = k THEN <<k, v>> ELSE d[i]]
    ELSE Append(d, <<k, v>>)

----------------------------------------------------------------------------
(* JSON objects of the TMDB API *)

\* the JSON object {}
EmptyDict == [keys |-> {}, results |-> <<>>, genres |-> <<>>, total_pages |-> 0]

ResultsBody(rs) == [EmptyDict EXCEPT !.keys = {"results"}, !.results = rs]
PagedBody(rs, tp) ==
    [EmptyDict EXCEPT !.keys = {"results", "total_pages"}, !.results = rs,
                      !.total_pages = tp]
GenresBody(gs) == [EmptyDict EXCEPT !.keys = {"genres"}, !.genres = gs]

\* bool(data), data.get("results", []), data.get("genres", []), data.get("total_pages", 1)
DictTruthy(data) == data.keys # {}
GetResults(data) == IF "results" \in data.keys THEN data.results ELSE <<>>
GetGenres(data) == IF "genres" \in data.keys THEN data.genres ELSE <<>>
GetTotalPages(data) == IF "total_pages" \in data.keys THEN data.total_pages ELSE 1

----------------------------------------------------------------------------
(* The network: what one HTTP call can come to *)

FailKinds == {"http_error", "conn_error", "bad_json"}

Failure(k) == [kind |-> k, body |-> EmptyDict]
Ok(body) == [kind |-> "ok", body |-> body]
Failures == {Failure(k) : k \in FailKinds}

\* a request as sent: the endpoint and the parameters the model follows
Request(endpoint) ==
    [endpoint |-> endpoint, page |-> None, with_watch_providers |-> None,
     watch_region |-> None, with_genres |-> None, runtime_lte |-> None,
     release_lte |-> None, with_original_language |-> None, query |-> None]

\* entries of /watch/providers/{movie,tv}
Provider(name, id) == [provider_name |-> name, provider_id |-> id]
ProvNf == Provider(<<"N", "f">>, Some(8))
ProvNfx == Provider(<<"N", "f", "x">>, Some(9))
ProvAnon == Provider(<<>>, None)

\* entries of /genre/{movie,tv}/list
Genre(name, id) == [name |-> name, id |-> id]
GenreAc == Genre(<<"A", "c">>, 28)
GenreDr == Genre(<<"d", "r">>, 18)

\* raw items of /discover and /search
RawItem(id, mt, title, name, rel, air) ==
    [id |-> id, media_type |-> mt, title |-> title, name |-> name,
     original_title |-> None, original_name |-> None, poster_path |-> None,
     overview |-> None, release_date |-> rel, first_air_date |-> air,
     vote_average |-> None]
Item1 == RawItem(1, None, Some("Heat"), None, Some("1995"), None)
Item2 == RawItem(2, Some("tv"), Some(""), Some("Dark"), None, Some("2017"))

----------------------------------------------------------------------------
(* tools.py *)

TTL == 24 * 3600

\* the state of the module, threaded through one call
World ==
    [key |-> TMDB_API_KEY, pc |-> _provider_cache, gc |-> _genre_cache,
     now |-> now, fat |-> fetchedAt, log |-> <<>>, resps |-> <<>>,
     pids |-> <<>>, gmap |-> None]

Return(w, v) == [w |-> w, raised |-> FALSE, ret |-> v]
Raise(w) == [w |-> w, raised |-> TRUE, ret |-> None]

KeyMissing(key) == ~TruthyStr(key)

\* a check for None only, which lets an empty key through
EnsureKeyIsNone(key) == key = None

\* _ensure_api_key: TRUE when it raises
_ensure_api_key(key) == KeyMissing(key)

\* fetch_tmdb without its except ValueError: a body that is not JSON propagates
FetchNoValueError(w, req, outcomes) ==
    IF _ensure_api_key(w.key)
    THEN {Raise(w)}
    ELSE {IF o.kind = "bad_json"
          THEN Raise([w EXCEPT !.log = Append(@, req), !.resps = Append(@, o)])
          ELSE Return([w EXCEPT !.log = Append(@, req), !.resps = Append(@, o)],
                      IF o.kind = "ok" THEN o.body ELSE EmptyDict) : o \in outcomes}

\* fetch_tmdb: the request is sent once, and every failure comes back as {}
fetch_tmdb(w, req, outcomes) ==
    IF _ensure_api_key(w.key)
    THEN {Raise(w)}
    ELSE {Return([w EXCEPT !.log = Append(@, req), !.resps = Append(@, o)],
                 IF o.kind = "ok" THEN o.body ELSE EmptyDict) : o \in outcomes}

\* lines 67-70: the name -> id mapping of a provider list
RECURSIVE ProviderMapping(_, _)
ProviderMapping(results, mapping) ==
    IF results = <<>> THEN mapping
    ELSE ProviderMapping(Tail(results),
             DictSet(mapping, Lower(Head(results).provider_name),
                     Head(results).provider_id))

\* lines 73-81: exact match, then the first key that contains the name
ProviderLookup(mapping, name_key) ==
    IF DictHas(mapping, name_key) THEN DictGet(mapping, name_key)
    ELSE IF \E i \in 1..Len(mapping) : IsSubstring(name_key, mapping[i][1])
    THEN mapping[CHOOSE i \in 1..Len(mapping) :
                    /\ IsSubstring(name_key, mapping[i][1])
                    /\ \A j \in 1..(i - 1) : ~IsSubstring(name_key, mapping[j][1])][2]
    ELSE None

\* line 63 with "is None" for "not": an empty mapping counts as cached
ProviderStaleIsNone(pc, media_type, t) ==
    pc[media_type] = None \/ (t - pc.timestamp > TTL)

\* line 63: whether get_provider_id_by_name refreshes the mapping
ProviderStale(pc, media_type, t) ==
    ~TruthySeq(pc[media_type]) \/ (t - pc.timestamp > TTL)

ProviderEndpoint(media_type) ==
    IF media_type = "movie" THEN "/watch/providers/movie" ELSE "/watch/providers/tv"

\* lines 71-72: store the mapping and the time
ProviderStore(w, media_type, mapping) ==
    [w EXCEPT !.pc[media_type] = Some(mapping), !.pc.timestamp = w.now,
              !.fat.prov[media_type] = w.now]

get_provider_id_by_name(w, name, media_type, env) ==
    IF name = <<>> THEN {Return(w, None)}
    ELSE LET name_key == Lower(Strip(name)) IN
         IF ProviderStale(w.pc, media_type, w.now)
         THEN {IF r.raised THEN r
               ELSE LET resp == r.ret
                        results == IF DictTruthy(resp) THEN GetResults(resp) ELSE <<>>
                        mapping == ProviderMapping(results, <<>>)
                    IN  Return(ProviderStore(r.w, media_type, mapping),
                               ProviderLookup(mapping, name_key))
               : r \in fetch_tmdb(w, [Request(ProviderEndpoint(media_type))
                                        EXCEPT !.page = Some(1)], env.prov)}
         ELSE {Return(w, ProviderLookup(IF w.pc[media_type] = None THEN <<>>
                                        ELSE w.pc[media_type][1], name_key))}

\* line 89: the name -> id dict of a genre list
RECURSIVE GenreMapping(_, _)
GenreMapping(gs, mapping) ==
    IF gs = <<>> THEN mapping
    ELSE GenreMapping(Tail(gs), DictSet(mapping, Lower(Head(gs).name), Head(gs).id))

\* line 85: whether ensure_genres answers from the cache
GenreFresh(gc, media_type, t) ==
    gc.timestamp # 0 /\ (t - gc.timestamp < TTL) /\ TruthySeq(gc[media_type])

GenreEndpoint(media_type) ==
    IF media_type = "movie" THEN "/genre/movie/list" ELSE "/genre/tv/list"

\* lines 90-91
GenreStore(w, media_type, result) ==
    [w EXCEPT !.gc[media_type] = Some(result), !.gc.timestamp = w.now,
              !.fat.genre[media_type] = w.now]

ensure_genres(w, media_type, env) ==
    IF GenreFresh(w.gc, media_type, w.now)
    THEN {Return(w, w.gc[media_type][1])}
    ELSE {IF r.raised THEN r
          ELSE LET data == r.ret
                   result == IF DictTruthy(data)
                             THEN GenreMapping(GetGenres(data), <<>>) ELSE <<>>
               IN  Return(GenreStore(r.w, media_type, result), result)
          : r \in fetch_tmdb(w, Request(GenreEndpoint(media_type)), env.genre)}

normalize_item(item, default_media_type) ==
    [id |-> item.id,
     title |-> OrStr(item.title, OrStr(item.name,
                   OrStr(item.original_title, item.original_name))),
     poster_path |-> item.poster_path,
     overview |-> item.overview,
     release_date |-> OrStr(item.release_date, item.first_air_date),
     media_type |-> IF TruthyStr(item.media_type) THEN item.media_type[1]
                    ELSE default_media_type,
     vote_average |-> item.vote_average,
     raw |-> item]

NormalizeAll(items, media_type) ==
    [i \in 1..Len(items) |-> normalize_item(items[i], media_type)]

\* lines 135-140: one get_provider_id_by_name per name, the ids found kept as str;
\* w.pids records what each lookup returned
RECURSIVE ResolveProviders(_, _, _, _, _)
ResolveProviders(w, names, media_type, pids, env) ==
    IF names = <<>> THEN {Return(w, pids)}
    ELSE UNION {IF r.raised THEN {r}
                ELSE ResolveProviders([r.w EXCEPT !.pids = Append(@, r.ret)],
                         Tail(names), media_type,
                         IF TruthyInt(r.ret) THEN Append(pids, ToString(r.ret[1]))
                         ELSE pids, env)
                : r \in get_provider_id_by_name(w, Head(names), media_type, env)}

\* watch_region sent whether or not a provider resolved
ProviderParamsAlways(params, pids, region) ==
    IF pids # <<>>
    THEN [params EXCEPT !.with_watch_providers = Some(Join(",", pids)),
                        !.watch_region = Some(region)]
    ELSE [params EXCEPT !.watch_region = Some(region)]

\* lines 141-143
ProviderParams(params, pids, region) ==
    IF pids # <<>>
    THEN [params EXCEPT !.with_watch_providers = Some(Join(",", pids)),
                        !.watch_region = Some(region)]
    ELSE params

\* lines 148-154: the ids of the genres the dict knows, as str
RECURSIVE GenreIds(_, _, _)
GenreIds(gmap, genres, gid_list) ==
    IF genres = <<>> THEN gid_list
    ELSE LET g == Head(genres)
             found == g # <<>> /\ DictHas(gmap, Lower(g)) /\ DictGet(gmap, Lower(g)) # 0
         IN  GenreIds(gmap, Tail(genres),
                 IF found THEN Append(gid_list, ToString(DictGet(gmap, Lower(g))))
                 ELSE gid_list)

\* lines 155-156
GenreParams(params, gid_list) ==
    IF gid_list # <<>> THEN [params EXCEPT !.with_genres = Some(Join(",", gid_list))]
    ELSE params

\* lines 158-174: runtime, release date and original language
FilterParams(params, a) ==
    LET p1 == IF TruthyInt(a.max_runtime_minutes)
              THEN [params EXCEPT !.runtime_lte = a.max_runtime_minutes] ELSE params
        p2 == IF TruthyStr(a.primary_release_before)
              THEN [p1 EXCEPT !.release_lte = a.primary_release_before] ELSE p1
    IN  IF TruthyStr(a.original_language)
        THEN [p2 EXCEPT !.with_original_language = a.original_language] ELSE p2

DiscoverEndpoint(media_type) ==
    IF media_type = "movie" THEN "/discover/movie" ELSE "/discover/tv"

\* line 186 with > for >=: one page too many
LastPageStrict(p, data, page, max_pages) ==
    p > GetTotalPages(data) \/ p >= page + max_pages - 1

\* line 186: whether the loop stops after page p
LastPage(p, data, page, max_pages) ==
    p >= GetTotalPages(data) \/ p >= page + max_pages - 1

\* lines 178-188: the paging loop, from page p on
RECURSIVE Pages(_, _, _, _, _, _)
Pages(w, p, a, params, results, env) ==
    IF p >= a.page + a.max_pages THEN {Return(w, results)}
    ELSE UNION {IF r.raised THEN {r}
                ELSE IF ~DictTruthy(r.ret) THEN {Return(r.w, results)}
                ELSE LET sofar == results \o NormalizeAll(GetResults(r.ret), a.media_type)
                     IN  IF LastPage(p, r.ret, a.page, a.max_pages)
                         THEN {Return(r.w, sofar)}
                         ELSE Pages(r.w, p + 1, a, params, sofar, env)
                : r \in fetch_tmdb(w, [params EXCEPT !.page = Some(p)], env.disc)}

\* lines 146-156: genres, on the world left by the providers
DiscoverGenres(w, a, params, env) ==
    IF a.genres # None /\ a.genres[1] # <<>>
    THEN UNION {IF r.raised THEN {r}
                ELSE Pages([r.w EXCEPT !.gmap = Some(r.ret)], a.page, a,
                           FilterParams(GenreParams(params,
                               GenreIds(r.ret, a.genres[1], <<>>)), a), <<>>, env)
                : r \in ensure_genres(w, a.media_type, env)}
    ELSE Pages(w, a.page, a, FilterParams(params, a), <<>>, env)

discover_media_with_filters(w, a, env) ==
    LET params == [Request(DiscoverEndpoint(a.media_type)) EXCEPT !.page = Some(a.page)]
    IN  IF a.provider_names # None /\ a.provider_names[1] # <<>>
        THEN UNION {IF r.raised THEN {r}
                    ELSE DiscoverGenres(r.w, a,
                             ProviderParams(params, r.ret, a.region), env)
                    : r \in ResolveProviders(w, a.provider_names[1], a.media_type,
                                             <<>>, env)}
        ELSE DiscoverGenres(w, a, params, env)

SearchEndpoint(media_type) ==
    IF media_type = "movie" THEN "/search/movie" ELSE "/search/tv"

\* the default of max_results
MaxResults == 10

search_fallback(w, query, media_type, max_results, env) ==
    {IF r.raised THEN r
     ELSE LET res == IF DictTruthy(r.ret) THEN GetResults(r.ret) ELSE <<>>
          IN  Return(r.w, NormalizeAll(SubSeq(res, 1, IF Len(res) < max_results
                                                     THEN Len(res) ELSE max_results),
                                       media_type))
     : r \in fetch_tmdb(w, [Request(SearchEndpoint(media_type))
                              EXCEPT !.query = Some(query), !.page = Some(1)],
                        env.search)}

\* the arguments of discover_media_with_filters, with its defaults
DiscoverArgs ==
    [media_type |-> "movie", region |-> "IN", max_runtime_minutes |-> None,
     provider_names |-> None, genres |-> None, original_language |-> None,
     primary_release_before |-> None, page |-> 1, max_pages |-> 1]

----------------------------------------------------------------------------
(* The environment and the callers' inputs *)

ProvOutcomes ==
    Failures \cup {Ok(ResultsBody(<<>>)), Ok(ResultsBody(<<ProvNf>>)),
                   Ok(ResultsBody(<<ProvAnon, ProvNf, ProvNfx>>))}
GenreOutcomes ==
    Failures \cup {Ok(EmptyDict), Ok(GenresBody(<<>>)),
                   Ok(GenresBody(<<GenreAc, GenreDr>>))}
DiscOutcomes ==
    Failures \cup {Ok(EmptyDict), Ok(PagedBody(<<>>, 3)), Ok(PagedBody(<<Item1>>, 1)),
                   Ok(PagedBody(<<Item1, Item2>>, 3)), Ok(ResultsBody(<<Item2>>))}
SearchOutcomes ==
    Failures \cup {Ok(PagedBody(<<>>, 0)), Ok(PagedBody(<<Item1, Item2>>, 1))}

\* the lists the cache lookups see: every failure, an empty list, a full list
CacheEnv ==
    [prov |-> Failures \cup {Ok(ResultsBody(<<>>)), Ok(ResultsBody(<<ProvNf, ProvNfx>>))},
     genre |-> Failures \cup {Ok(GenresBody(<<>>)), Ok(GenresBody(<<GenreAc, GenreDr>>))},
     disc |-> {}, search |-> {}]

Env == [prov |-> ProvOutcomes, genre |-> GenreOutcomes, disc |-> DiscOutcomes,
        search |-> SearchOutcomes]

SeqsUpTo(S, n) == UNION {[1..k -> S] : k \in 0..n}
OptionalOf(S) == {None} \cup {Some(x) : x \in S}

ProviderNames == {<<>>, <<" ", "N", "f">>, <<"f", "x">>}
GenreNames == {<<>>, <<"A", "C">>, <<"d", "r">>}
ApiKeys == {None, Some(""), Some("k")}

\* clock advances: half the time-to-live
ClockSteps == {TTL \div 2}

\* time.time() when the process starts: long after the epoch
StartTime == 10 * TTL

----------------------------------------------------------------------------
(* State *)

NoCall ==
    [op |-> "none", name |-> <<>>, query |-> "", a |-> DiscoverArgs,
     raised |-> FALSE, ret |-> None, log |-> <<>>, resps |-> <<>>,
     pids |-> <<>>, gmap |-> None,
     pre |-> [key |-> None, pc |-> [movie |-> None, tv |-> None, timestamp |-> 0],
              gc |-> [movie |-> None, tv |-> None, timestamp |-> 0]]]

InitTools ==
    /\ TMDB_API_KEY = None
    /\ initCalled = FALSE
    /\ _provider_cache = [movie |-> None, tv |-> None, timestamp |-> 0]
    /\ _genre_cache = [movie |-> None, tv |-> None, timestamp |-> 0]
    /\ now = StartTime
    /\ ticks = 0
    /\ fetchedAt = [prov |-> [movie |-> 0, tv |-> 0], genre |-> [movie |-> 0, tv |-> 0]]
    /\ last = NoCall

\* A run is followed until one call is put on record in `last`; the calls
\* before it change the module state and leave no record.
Unrecorded == last.op = "none"

\* a call of tools.py ends: the module state it left and, when the call is the
\* one on record, its arguments, the state it started from, its requests and
\* its result
Finish(r, call, record) ==
    /\ _provider_cache' = r.w.pc
    /\ _genre_cache' = r.w.gc
    /\ fetchedAt' = r.w.fat
    /\ last' = IF record
               THEN [call EXCEPT !.raised = r.raised, !.ret = r.ret, !.log = r.w.log,
                                 !.resps = r.w.resps, !.pids = r.w.pids,
                                 !.gmap = r.w.gmap,
                                 !.pre = [key |-> TMDB_API_KEY, pc |-> _provider_cache,
                                          gc |-> _genre_cache]]
               ELSE NoCall
    /\ UNCHANGED <<TMDB_API_KEY, initCalled, now, ticks, ui, ladder>>

\* tools.init(api_key), called once from the app's start
init(api_key) ==
    /\ Unrecorded
    /\ ~initCalled
    /\ initCalled' = TRUE
    /\ TMDB_API_KEY' = api_key
    /\ UNCHANGED <<_provider_cache, _genre_cache, now, ticks, fetchedAt, last,
                   ui, ladder>>

\* time passes between two calls
Tick(d) ==
    /\ Unrecorded
    /\ ticks < MaxTicks
    /\ ticks' = ticks + 1
    /\ now' = now + d
    /\ UNCHANGED <<TMDB_API_KEY, initCalled, _provider_cache, _genre_cache,
                   fetchedAt, last, ui, ladder>>

CallFetch(env) ==
    /\ Unrecorded
    /\ \E r \in fetch_tmdb(World, Request("/movie/popular"), env.disc),
          record \in BOOLEAN :
          Finish(r, [NoCall EXCEPT !.op = "fetch_tmdb"], record)

CallProvider(name, media_type, env) ==
    /\ Unrecorded
    /\ \E r \in get_provider_id_by_name(World, name, media_type, env),
          record \in BOOLEAN :
          Finish(r, [NoCall EXCEPT !.op = "get_provider_id_by_name", !.name = name,
                                   !.a.media_type = media_type], record)

CallGenres(media_type, env) ==
    /\ Unrecorded
    /\ \E r \in ensure_genres(World, media_type, env), record \in BOOLEAN :
          Finish(r, [NoCall EXCEPT !.op = "ensure_genres",
                                   !.a.media_type = media_type], record)

CallDiscover(a, env) ==
    /\ Unrecorded
    /\ \E r \in discover_media_with_filters(World, a, env), record \in BOOLEAN :
          Finish(r, [NoCall EXCEPT !.op = "discover_media_with_filters", !.a = a],
                 record)

CallSearch(query, media_type, env) ==
    /\ Unrecorded
    /\ \E r \in search_fallback(World, query, media_type, MaxResults, env),
          record \in BOOLEAN :
          Finish(r, [NoCall EXCEPT !.op = "search_fallback", !.query = query,
                                   !.a.media_type = media_type], record)

\* lines 101-106: a new session
InitUi == ui = [selected_movie |-> None, history |-> <<>>, watchlist |-> <<>>]

NoRun ==
    [ran |-> FALSE, title |-> None, broaden |-> FALSE, calls |-> <<>>, data |-> <<>>,
     raised |-> FALSE, shown |-> "nothing"]
InitLadder == ladder = NoRun

Init == InitTools /\ InitUi /\ InitLadder

\* the caches over time: init, the clock and the two lookups
NextCache ==
    \/ \E k \in ApiKeys : init(k)
    \/ \E d \in ClockSteps : Tick(d)
    \/ \E n \in ProviderNames, m \in MediaTypes : CallProvider(n, m, CacheEnv)
    \/ \E m \in MediaTypes : CallGenres(m, CacheEnv)

SpecCache == Init /\ [][NextCache]_vars

\* name resolution in discover_media_with_filters: one page, many names
ResolveEnv ==
    [prov |-> {Failure("conn_error"), Ok(ResultsBody(<<ProvNf>>)),
               Ok(ResultsBody(<<ProvAnon, ProvNf, ProvNfx>>))},
     genre |-> {Failure("bad_json"), Ok(GenresBody(<<GenreAc, GenreDr>>))},
     disc |-> {Failure("http_error"), Ok(PagedBody(<<Item1>>, 1))},
     search |-> {}]

ResolveArgs ==
    {[DiscoverArgs EXCEPT !.media_type = m, !.provider_names = ps, !.genres = gs]
     : m \in MediaTypes,
       ps \in OptionalOf(SeqsUpTo(ProviderNames, MaxNames)),
       gs \in {None, Some(<<<<"d", "r">>>>)}}
    \cup
    {[DiscoverArgs EXCEPT !.media_type = m, !.provider_names = ps, !.genres = gs]
     : m \in MediaTypes,
       ps \in {None, Some(<<<<"f", "x">>>>)},
       gs \in OptionalOf(SeqsUpTo(GenreNames, MaxGenres))}

NextResolve ==
    \/ \E k \in ApiKeys : init(k)
    \/ \E a \in ResolveArgs : CallDiscover(a, ResolveEnv)

SpecResolve == Init /\ [][NextResolve]_vars

\* the paging loop of discover_media_with_filters: no names, many pages
PagingEnv == [prov |-> {}, genre |-> {}, disc |-> DiscOutcomes, search |-> {}]

PagingArgs ==
    {[DiscoverArgs EXCEPT !.media_type = m, !.page = p, !.max_pages = n,
                          !.max_runtime_minutes = rt]
     : m \in MediaTypes, p \in 1..2, n \in 0..MaxPages, rt \in {None, Some(90)}}

NextPaging ==
    \/ \E k \in ApiKeys : init(k)
    \/ \E a \in PagingArgs : CallDiscover(a, PagingEnv)

SpecPaging == Init /\ [][NextPaging]_vars

\* every operation of tools.py, with and without the key
ToolsArgs ==
    {[DiscoverArgs EXCEPT !.media_type = m, !.provider_names = ps, !.genres = gs,
                          !.max_pages = n]
     : m \in MediaTypes,
       ps \in {None, Some(<<<<>>>>), Some(<<<<"f", "x">>>>)},
       gs \in {None, Some(<<<<"A", "C">>>>)},
       n \in 0..1}

Queries == {"heat"}

NextTools ==
    \/ \E k \in ApiKeys : init(k)
    \/ CallFetch(Env)
    \/ \E n \in ProviderNames, m \in MediaTypes : CallProvider(n, m, Env)
    \/ \E m \in MediaTypes : CallGenres(m, Env)
    \/ \E a \in ToolsArgs : CallDiscover(a, Env)
    \/ \E q \in Queries, m \in MediaTypes : CallSearch(q, m, Env)

SpecTools == Init /\ [][NextTools]_vars

----------------------------------------------------------------------------
(* The call on record *)

Recorded(op) == last.op = op
KeySet == TruthyStr(last.pre.key)

\* the other media type
Other(m) == IF m = "movie" THEN "tv" ELSE "movie"

\* the requests of the recorded call that went to one endpoint
RequestsTo(endpoint) == SelectSeq(last.log, LAMBDA q : q.endpoint = endpoint)

\* what fetch_tmdb handed back for the i-th request of the recorded call
DataOf(i) == IF last.resps[i].kind = "ok" THEN last.resps[i].body ELSE EmptyDict

Failed(i) == last.resps[i].kind \in FailKinds

----------------------------------------------------------------------------
(* C1: with an API key set, an HTTP error status, a connection or timeout    *)
(* error and a body that is not JSON all come back from fetch_tmdb as an     *)
(* empty dict with nothing raised; search_fallback returns an empty list,    *)
(* and so does discover_media_with_filters when its discover request fails,  *)
(* whatever failed before it; none of them raises.                           *)
C1_FailuresAbsorbed ==
    /\ (Recorded("fetch_tmdb") /\ KeySet)
          => /\ ~last.raised
             /\ Len(last.log) = 1
             /\ Failed(1) => last.ret = EmptyDict
    /\ (Recorded("search_fallback") /\ KeySet)
          => /\ ~last.raised
             /\ Len(last.log) = 1
             /\ Failed(1) => last.ret = <<>>
    /\ (Recorded("discover_media_with_filters") /\ KeySet)
          => /\ ~last.raised
             /\ (\A i \in 1..Len(last.log) :
                    (last.log[i].endpoint = DiscoverEndpoint(last.a.media_type)
                     /\ Failed(i)
                     /\ \A j \in 1..(i - 1) :
                           last.log[j].endpoint # DiscoverEndpoint(last.a.media_type))
                    => last.ret = <<>>)
    /\ (Recorded("get_provider_id_by_name") /\ KeySet) => ~last.raised
    /\ (Recorded("ensure_genres") /\ KeySet)
          => (~last.raised /\ ((last.log # <<>> /\ Failed(1)) => last.ret = <<>>))

\* a discovery in which the provider list, the genre list and the discover
\* request all failed, one of them on a body that is not JSON
C1_Witness ==
    /\ Recorded("discover_media_with_filters")
    /\ KeySet
    /\ Len(last.log) = 3
    /\ \A i \in 1..3 : Failed(i)
    /\ \E i \in 1..3 : last.resps[i].kind = "bad_json"
    /\ \E i \in 1..3 : last.resps[i].kind = "http_error"
    /\ last.ret = <<>>
    /\ ~last.raised

----------------------------------------------------------------------------
(* C6: while TMDB_API_KEY is unset or empty, every call that needs the       *)
(* network raises, sends no HTTP request and leaves both caches, mappings    *)
(* and timestamps, as they were; once init has set a non-empty key no call   *)
(* raises.                                                                   *)
NeedsNetwork ==
    \/ Recorded("fetch_tmdb")
    \/ Recorded("search_fallback")
    \/ Recorded("get_provider_id_by_name")
          /\ last.name # <<>> /\ ~TruthySeq(last.pre.pc[last.a.media_type])
    \/ Recorded("ensure_genres") /\ ~TruthySeq(last.pre.gc[last.a.media_type])
    \/ Recorded("discover_media_with_filters")
          /\ \/ last.a.max_pages >= 1
             \/ last.a.genres # None /\ last.a.genres[1] # <<>>
             \/ last.a.provider_names # None
                   /\ \E i \in 1..Len(last.a.provider_names[1]) :
                         last.a.provider_names[1][i] # <<>>

C6_NoKeyNoNetwork ==
    /\ (NeedsNetwork /\ ~KeySet)
          => /\ last.raised
             /\ last.log = <<>>
             /\ _provider_cache = last.pre.pc
             /\ _genre_cache = last.pre.gc
    /\ (~Recorded("none") /\ KeySet) => ~last.raised

\* init("") was called, and a provider lookup then raised
C6_Witness ==
    /\ Recorded("get_provider_id_by_name")
    /\ initCalled
    /\ TMDB_API_KEY = Some("")
    /\ last.raised
    /\ last.log = <<>>

----------------------------------------------------------------------------
(* Name resolution, as the recorded discovery saw it *)

NamesGiven == IF last.a.provider_names = None THEN <<>> ELSE last.a.provider_names[1]
GenresGiven == IF last.a.genres = None THEN <<>> ELSE last.a.genres[1]

\* the ids of the provider names that resolved, in input order, as text
ResolvedProviderIds ==
    LET found == SelectSeq(last.pids, LAMBDA pid : pid # None /\ pid[1] # 0)
    IN  [i \in 1..Len(found) |-> ToString(found[i][1])]

\* whether the genre dict of the call knows the name, and under which id
GenreKnown(g) ==
    /\ g # <<>>
    /\ last.gmap # None
    /\ \E i \in 1..Len(last.gmap[1]) :
          last.gmap[1][i][1] = Lower(g) /\ last.gmap[1][i][2] # 0
GenreIdOf(g) ==
    (CHOOSE e \in {last.gmap[1][i] : i \in 1..Len(last.gmap[1])} : e[1] = Lower(g))[2]

ResolvedGenreIds ==
    LET found == SelectSeq(GenresGiven, GenreKnown)
    IN  [i \in 1..Len(found) |-> ToString(GenreIdOf(found[i]))]

\* "8,9" for <<"8", "9">>
CommaJoined(ids) ==
    IF ids = <<>> THEN ""
    ELSE LET Pre[i \in 1..Len(ids)] ==
                 IF i = 1 THEN ids[1] ELSE Pre[i - 1] \o "," \o ids[i]
         IN  Pre[Len(ids)]

DiscoverRequests == RequestsTo(DiscoverEndpoint(last.a.media_type))

----------------------------------------------------------------------------
(* C5: one discover_media_with_filters call with max_pages = 1 sends at most *)
(* three HTTP requests: at most one provider-list fetch, at most one         *)
(* genre-list fetch and exactly one discover request.                        *)
C5_AtMostThreeRequests ==
    (Recorded("discover_media_with_filters") /\ KeySet /\ last.a.max_pages = 1)
        => /\ Len(last.log) <= 3
           /\ Len(RequestsTo(ProviderEndpoint(last.a.media_type))) <= 1
           /\ Len(RequestsTo(GenreEndpoint(last.a.media_type))) <= 1
           /\ Len(DiscoverRequests) = 1

----------------------------------------------------------------------------
(* The paging loop, as the recorded discovery saw it *)

\* the normalized results of the first n responses, in request order
RECURSIVE ResultsUpTo(_)
ResultsUpTo(n) ==
    IF n = 0 THEN <<>>
    ELSE ResultsUpTo(n - 1)
         \o [j \in 1..Len(GetResults(DataOf(n))) |->
                normalize_item(GetResults(DataOf(n))[j], last.a.media_type)]

\* the i-th response ends the loop: it failed or is the empty object, or its
\* total_pages (1 when absent) does not exceed the page just fetched
EndsLoop(i) ==
    \/ Failed(i)
    \/ DataOf(i).keys = {}
    \/ GetTotalPages(DataOf(i)) <= last.a.page + i - 1

(* C7: the paging loop of discover_media_with_filters ends for every         *)
(* page >= 1 and max_pages >= 0 after at most max_pages discover requests,   *)
(* for the consecutive pages page, page + 1, ...; it stops after the first   *)
(* response that failed or is empty and after the first response whose       *)
(* total_pages is at most the page just fetched; and it returns the          *)
(* normalized results of the pages it fetched, concatenated in request       *)
(* order, those of earlier pages kept when a later page fails.               *)
C7_PagingLoop ==
    (Recorded("discover_media_with_filters") /\ KeySet /\ NamesGiven = <<>>
     /\ GenresGiven = <<>>)
        => LET n == Len(last.log) IN
           /\ ~last.raised
           /\ n <= last.a.max_pages
           /\ last.a.max_pages >= 1 => n >= 1
           /\ \A i \in 1..n :
                 /\ last.log[i].endpoint = DiscoverEndpoint(last.a.media_type)
                 /\ last.log[i].page = Some(last.a.page + i - 1)
           /\ \A i \in 1..(n - 1) : ~EndsLoop(i)
           /\ (n >= 1 /\ n < last.a.max_pages) => EndsLoop(n)
           /\ last.ret = ResultsUpTo(n)

\* two pages asked from page 2 on: page 2 gave two items and promised a third
\* page, page 3 failed, and the two items of page 2 are returned
C7_Witness ==
    /\ Recorded("discover_media_with_filters")
    /\ KeySet
    /\ last.a.page = 2
    /\ last.a.max_pages = 2
    /\ Len(last.log) = 2
    /\ last.log[2].page = Some(3)
    /\ ~Failed(1)
    /\ Failed(2)
    /\ Len(last.ret) = 2
    /\ last.ret[2].title = Some("Dark")
    /\ last.ret[1].media_type = last.a.media_type

----------------------------------------------------------------------------
(* The caches, as the recorded lookup saw them *)

RecordedType == last.a.media_type

\* the lookup was answered from the cached mapping: no request went out
FromProviderCache ==
    /\ Recorded("get_provider_id_by_name") /\ last.name # <<>>
    /\ ~last.raised /\ last.log = <<>>
FromGenreCache ==
    Recorded("ensure_genres") /\ ~last.raised /\ last.log = <<>>

(* C2: the provider and genre caches honour a 24-hour time-to-live per       *)
(* entry: a lookup answered from a cached mapping without a fetch uses a     *)
(* mapping, of that cache and media type, fetched at most 24 hours before.   *)
C2_TtlPerEntry ==
    /\ FromProviderCache => now - fetchedAt.prov[RecordedType] <= TTL
    /\ FromGenreCache => now - fetchedAt.genre[RecordedType] <= TTL

(* C8 as stated: after a provider-list or genre-list fetch for a media type  *)
(* left an empty mapping, the next get_provider_id_by_name, respectively     *)
(* ensure_genres, call for that media type issues a new fetch, also inside   *)
(* the 24 hours; and a fetch never changes the other media type's mapping.   *)
C8_EmptyNeverServed_AsStated ==
    /\ (Recorded("get_provider_id_by_name") /\ KeySet
        /\ last.pre.pc[RecordedType] = Some(<<>>))
          => Len(last.log) = 1
    /\ (Recorded("ensure_genres") /\ KeySet /\ last.pre.gc[RecordedType] = Some(<<>>))
          => Len(last.log) = 1
    /\ Recorded("get_provider_id_by_name")
          => /\ _provider_cache[Other(RecordedType)] = last.pre.pc[Other(RecordedType)]
             /\ _genre_cache = last.pre.gc
    /\ Recorded("ensure_genres")
          => /\ _genre_cache[Other(RecordedType)] = last.pre.gc[Other(RecordedType)]
             /\ _provider_cache = last.pre.pc

(* C8 as amended: the same, for a get_provider_id_by_name call with a        *)
(* non-empty name (an empty name returns None before the cache is looked at).*)
C8_EmptyNeverServed ==
    /\ (Recorded("get_provider_id_by_name") /\ KeySet /\ last.name # <<>>
        /\ last.pre.pc[RecordedType] = Some(<<>>))
          => /\ Len(last.log) = 1
             /\ last.log[1].endpoint = ProviderEndpoint(RecordedType)
    /\ (Recorded("ensure_genres") /\ KeySet /\ last.pre.gc[RecordedType] = Some(<<>>))
          => /\ Len(last.log) = 1
             /\ last.log[1].endpoint = GenreEndpoint(RecordedType)
    /\ Recorded("get_provider_id_by_name")
          => /\ _provider_cache[Other(RecordedType)] = last.pre.pc[Other(RecordedType)]
             /\ _genre_cache = last.pre.gc
    /\ Recorded("ensure_genres")
          => /\ _genre_cache[Other(RecordedType)] = last.pre.gc[Other(RecordedType)]
             /\ _provider_cache = last.pre.pc

\* a provider lookup inside the 24 hours that found an empty movie mapping
\* next to a filled tv mapping, fetched again and left the tv mapping alone
C8_Witness ==
    /\ Recorded("get_provider_id_by_name")
    /\ last.name # <<>>
    /\ RecordedType = "movie"
    /\ last.pre.pc.movie = Some(<<>>)
    /\ TruthySeq(last.pre.pc.tv)
    /\ now - last.pre.pc.timestamp < TTL
    /\ Len(last.log) = 1
    /\ TruthySeq(_provider_cache.movie)
    /\ _provider_cache.tv = last.pre.pc.tv

----------------------------------------------------------------------------
(* app.py: the Streamlit session.  One action is one run of the script, set  *)
(* off by one widget.                                                        *)

\* what the grid and the detail page hold of an item
UiItem(id, type) == [id |-> id, type |-> type]
UiItems == {UiItem(i, t) : i \in 1..MaxIds, t \in MediaTypes}

\* the item lists a tool can hand to the grid
Grids == {<<x>> : x \in UiItems} \cup {<<UiItem(1, "movie"), UiItem(2, "tv")>>}

Message(role, type, text, grid) ==
    [role |-> role, type |-> type, text |-> text, grid |-> grid]

\* what chat.send_message and the dispatched tool come to (lines 297-320)
Replies ==
    {[kind |-> "text", data |-> <<>>], [kind |-> "error", data |-> <<>>],
     [kind |-> "tool", data |-> <<>>]}
    \cup {[kind |-> "tool", data |-> g] : g \in Grids}

\* lines 310-314 with the test turned round
ShowResultsInverted(data) == IF data = <<>> THEN "grid" ELSE "no_results"

\* lines 310-314: a grid when the tool returned items, the no-results error otherwise
ShowResults(data) == IF data # <<>> THEN "grid" ELSE "no_results"

\* line 248: which page the script draws
OnDetailPage == ui.selected_movie # None

\* lines 283-320: a chip or the chat input submits a query
SubmitQuery(user_text, reply) ==
    /\ ~OnDetailPage
    /\ Len(ui.history) < MaxHistory
    /\ LET asked == Append(ui.history, Message("user", "text", user_text, <<>>))
       IN  ui' = [ui EXCEPT !.history =
                     CASE reply.kind = "text" ->
                              Append(asked, Message("assistant", "text", "reply", <<>>))
                       [] reply.kind = "tool" /\ ShowResults(reply.data) = "grid" ->
                              Append(asked, Message("assistant", "grid", "", reply.data))
                       [] OTHER -> asked]
    /\ UNCHANGED <<toolsVars, ladder>>

\* lines 277-280: View Details under an item of a grid; tools.get_media_details
\* is not part of the sources, so its result is any item's details, or None
ViewDetails(msg_idx, item_idx, full_details) ==
    /\ ~OnDetailPage
    /\ msg_idx \in 1..Len(ui.history)
    /\ ui.history[msg_idx].type = "grid"
    /\ item_idx \in 1..Len(ui.history[msg_idx].grid)
    /\ ui' = [ui EXCEPT !.selected_movie = full_details]
    /\ UNCHANGED <<toolsVars, ladder>>

\* lines 188-190
BackToSearch ==
    /\ OnDetailPage
    /\ ui' = [ui EXCEPT !.selected_movie = None]
    /\ UNCHANGED <<toolsVars, ladder>>

\* line 196 comparing whole entries: the same id under another type passes
IsInListByEntry(movie, watchlist) == \E i \in 1..Len(watchlist) : watchlist[i] = movie

\* line 196
is_in_list(movie, watchlist) == \E i \in 1..Len(watchlist) : watchlist[i].id = movie.id

\* lines 196-202: the button is offered only for an item not yet in the list
AddToWatchlist ==
    /\ OnDetailPage
    /\ ~is_in_list(ui.selected_movie[1], ui.watchlist)
    /\ Len(ui.watchlist) < MaxWatch
    /\ ui' = [ui EXCEPT !.watchlist = Append(@, ui.selected_movie[1])]
    /\ UNCHANGED <<toolsVars, ladder>>

\* lines 171-176: the button is offered only for a list that is not empty
ClearWatchlist ==
    /\ ui.watchlist # <<>>
    /\ ui' = [ui EXCEPT !.watchlist = <<>>]
    /\ UNCHANGED <<toolsVars, ladder>>

\* lines 180-183
ClearChatHistory ==
    /\ ui' = [ui EXCEPT !.history = <<>>]
    /\ UNCHANGED <<toolsVars, ladder>>

NextApp ==
    \/ \E r \in Replies : SubmitQuery("query", r)
    \/ \E m \in 1..(MaxHistory + 1), i \in 1..2, d \in OptionalOf(UiItems) :
             ViewDetails(m, i, d)
    \/ BackToSearch
    \/ AddToWatchlist
    \/ ClearWatchlist
    \/ ClearChatHistory

SpecApp == Init /\ [][NextApp]_vars

----------------------------------------------------------------------------
(* C9: after any sequence of UI actions the watchlist holds no two entries   *)
(* with the same id; a step that changes the watchlist either empties it     *)
(* (Clear Watchlist) or appends the selected item, whose id no entry had.    *)
NoDuplicateIds ==
    \A i, j \in 1..Len(ui.watchlist) :
        ui.watchlist[i].id = ui.watchlist[j].id => i = j

WatchlistStep ==
    ui'.watchlist # ui.watchlist
        => \/ ui'.watchlist = <<>>
           \/ /\ ui.selected_movie # None
              /\ ui'.watchlist = Append(ui.watchlist, ui.selected_movie[1])
              /\ \A i \in 1..Len(ui.watchlist) :
                    ui.watchlist[i].id # ui.selected_movie[1].id

C9_WatchlistUnique == []NoDuplicateIds /\ [][WatchlistStep]_vars

\* two items in the list, and the detail page open on one that is already in it
C9_Witness ==
    /\ Len(ui.watchlist) = 2
    /\ ui.selected_movie # None
    /\ \E i \in 1..2 : /\ ui.watchlist[i].id = ui.selected_movie[1].id
                       /\ ui.watchlist[i] # ui.selected_movie[1]

----------------------------------------------------------------------------
(* The filter-to-request mapper's fallback ladder (spec 4.2).  The mapper is *)
(* not among the sources; its steps call discover_media_with_filters and     *)
(* search_fallback of tools.py, and what it returns is shown by app.py.      *)

Call(step, data) == [step |-> step, empty |-> data = <<>>]

Done(w, calls, data) == [w |-> w, raised |-> FALSE, calls |-> calls, data |-> data]
Thrown(w, calls) == [w |-> w, raised |-> TRUE, calls |-> calls, data |-> <<>>]

\* step 3: the primary filter with the providers and the runtime cleared
Broadened(a) == [a EXCEPT !.provider_names = None, !.max_runtime_minutes = None]

BroadenStep(w, a, broaden, calls, env) ==
    IF broaden
    THEN {IF r.raised THEN Thrown(r.w, Append(calls, Call("broadened", <<>>)))
          ELSE Done(r.w, Append(calls, Call("broadened", r.ret)), r.ret)
          : r \in discover_media_with_filters(w, Broadened(a), env)}
    ELSE {Done(w, calls, <<>>)}

\* step 2: the title search, when a title was extracted
SearchStep(w, a, title, broaden, calls, env) ==
    IF title # None
    THEN UNION {IF r.raised THEN {Thrown(r.w, Append(calls, Call("search", <<>>)))}
                ELSE IF r.ret # <<>>
                THEN {Done(r.w, Append(calls, Call("search", r.ret)), r.ret)}
                ELSE BroadenStep(r.w, a, broaden,
                                 Append(calls, Call("search", r.ret)), env)
                : r \in search_fallback(w, title[1], a.media_type, MaxResults, env)}
    ELSE BroadenStep(w, a, broaden, calls, env)

\* steps 1 to 4
FallbackLadder(w, a, title, broaden, env) ==
    UNION {IF r.raised THEN {Thrown(r.w, <<Call("discover", <<>>)>>)}
           ELSE IF r.ret # <<>> THEN {Done(r.w, <<Call("discover", r.ret)>>, r.ret)}
           ELSE SearchStep(r.w, a, title, broaden, <<Call("discover", r.ret)>>, env)
           : r \in discover_media_with_filters(w, a, env)}

LadderEnv ==
    [prov |-> {Failure("conn_error"), Ok(ResultsBody(<<ProvNf, ProvNfx>>))},
     genre |-> {Ok(GenresBody(<<GenreAc, GenreDr>>))},
     disc |-> {Failure("http_error"), Ok(PagedBody(<<>>, 0)), Ok(PagedBody(<<Item1>>, 1))},
     search |-> {Failure("bad_json"), Ok(PagedBody(<<>>, 0)), Ok(PagedBody(<<Item2>>, 1))}]

\* the primary filters of the submissions: a platform, a genre and a runtime
PrimaryFilters ==
    {[DiscoverArgs EXCEPT !.media_type = m, !.provider_names = Some(<<<<"f", "x">>>>),
                          !.genres = gs, !.max_runtime_minutes = Some(90)]
     : m \in MediaTypes, gs \in {None, Some(<<<<"d", "r">>>>)}}

Titles == {None, Some("heat")}

\* one submission through the mapper; app.py lines 309-320 show what came back
RunLadder(a, title, broaden) ==
    /\ \E r \in FallbackLadder(World, a, title, broaden, LadderEnv) :
          /\ ladder' = [ran |-> TRUE, title |-> title, broaden |-> broaden,
                        calls |-> r.calls, data |-> r.data, raised |-> r.raised,
                        shown |-> IF r.raised THEN "error" ELSE ShowResults(r.data)]
          /\ _provider_cache' = r.w.pc
          /\ _genre_cache' = r.w.gc
          /\ fetchedAt' = r.w.fat
    /\ UNCHANGED <<TMDB_API_KEY, initCalled, now, ticks, last, ui>>

NextLadder ==
    \/ \E k \in ApiKeys : init(k)
    \/ \E a \in PrimaryFilters, t \in Titles, b \in BOOLEAN : RunLadder(a, t, b)

SpecLadder == Init /\ [][NextLadder]_vars

StepsCalled == [i \in 1..Len(ladder.calls) |-> ladder.calls[i].step]

\* the steps that apply to the submission, in the order of the ladder
Applicable ==
    <<"discover">> \o (IF ladder.title # None THEN <<"search">> ELSE <<>>)
                   \o (IF ladder.broaden THEN <<"broadened">> ELSE <<>>)

====
